---- MODULE Spec2Model ----
(***************************************************************************)
(* Command gateway backend: rule matching, credit charging, audit trail    *)
(* and the approval-request workflow, as implemented by the Express        *)
(* handlers over the Prisma store.  Every `await prisma...` is one atomic  *)
(* store operation; handlers of different HTTP calls interleave between    *)
(* their awaits.                                                           *)
(***************************************************************************)
EXTENDS Integers, Sequences, FiniteSets, TLC

VARIABLES
    credits,    \* User.credits, per user
    rules,      \* RegexRule table, in ascending createdAt order
    ruleSeq,    \* number of RegexRule rows ever created (row identity)
    requests,   \* ApprovalRequest table, indexed by request id
    audit,      \* AuditTrail table, in creation order
    outbox,     \* approval-request notifications handed to sendEmail
    calls       \* the HTTP calls begun so far, each with its handler position

vars == <<credits, rules, ruleSeq, requests, audit, outbox, calls>>

----------------------------------------------------------------------------
(* Bounds of the model *)

MaxCalls == 3
ProbeLen == 3
StartCredits == 15

(* Constants of the program *)

CommandCost == 10
AuditPage == 500

----------------------------------------------------------------------------
(* Users, roles and texts *)

Users == {"adm", "app1", "app2", "mem"}

NoKey == "anon"

Role(u) ==
    CASE u = "adm" -> "admin"
      [] u \in {"app1", "app2"} -> "approver"
      [] OTHER -> "member"

LS == <<"l", "s">>
LX == <<"l", "x">>

RECURSIVE TrimStart(_)
TrimStart(s) ==
    IF s # <<>> /\ Head(s) = " " THEN TrimStart(Tail(s)) ELSE s

RECURSIVE TrimEnd(_)
TrimEnd(s) ==
    IF s # <<>> /\ s[Len(s)] = " " THEN TrimEnd(SubSeq(s, 1, Len(s) - 1)) ELSE s

\* As Trim, with nothing removed.
TrimKeep(s) == s

Trim(s) == TrimEnd(TrimStart(s))

----------------------------------------------------------------------------
(* Regular expressions: a pattern is a sequence of tokens.  A letter or a   *)
(* blank matches itself, "." matches any character, an escaped character   *)
(* ("\\.", "\\^", "\\$", "\\(") matches that character,                       *)
(* "^" and "$" assert the start and the end of the input, and "(" opens a   *)
(* group that is never closed, which RegExp refuses to compile.             *)

\* The pattern-special characters of the texts, and their escaped tokens.
Special == {".", "^", "$", "("}

Escape(ch) ==
    CASE ch = "." -> "\\."
      [] ch = "^" -> "\\^"
      [] ch = "$" -> "\\$"
      [] ch = "(" -> "\\("
      [] OTHER -> ch

IsValidRegex(p) == \A i \in 1..Len(p) : p[i] # "("

RECURSIVE MatchAt(_, _, _, _)
MatchAt(p, i, s, j) ==
    IF i > Len(p) THEN TRUE
    ELSE CASE p[i] = "^" -> j = 1 /\ MatchAt(p, i + 1, s, j)
           [] p[i] = "$" -> j = Len(s) + 1 /\ MatchAt(p, i + 1, s, j)
           [] p[i] = "." -> j <= Len(s) /\ MatchAt(p, i + 1, s, j + 1)
           [] p[i] \in {Escape(ch) : ch \in Special} ->
                j <= Len(s) /\ Escape(s[j]) = p[i] /\ s[j] \in Special
                            /\ MatchAt(p, i + 1, s, j + 1)
           [] OTHER -> j <= Len(s) /\ s[j] = p[i] /\ MatchAt(p, i + 1, s, j + 1)

RegexTest(p, s) == \E j \in 1..(Len(s) + 1) : MatchAt(p, 1, s, j)

\* As EscapeRegex, with every character kept as it is.
EscapeKeep(s) == s

RECURSIVE EscapeRegex(_)
EscapeRegex(s) ==
    IF s = <<>> THEN <<>>
    ELSE <<Escape(Head(s))>> \o EscapeRegex(Tail(s))

ExactPattern(text) == <<"^">> \o EscapeRegex(text) \o <<"$">>

----------------------------------------------------------------------------
(* Store rows *)

NoRule == [id |-> 0, pattern |-> <<>>, action |-> "NONE"]

NewRule(id, pattern, action) == [id |-> id, pattern |-> pattern, action |-> action]

PatternTaken(pattern) == \E i \in 1..Len(rules) : rules[i].pattern = pattern

\* As NewRequest, with the submitter recorded as the reviewer.
NewRequestReviewed(user, text) ==
    [userId |-> user, commandText |-> text, status |-> "pending",
     reviewedBy |-> user, reviewedAt |-> 0]

NewRequest(user, text) ==
    [userId |-> user, commandText |-> text, status |-> "pending",
     reviewedBy |-> "none", reviewedAt |-> 0]

NewCall(op, caller) ==
    [op |-> op, caller |-> caller, pc |-> "done", text |-> <<>>, num |-> 0,
     who |-> "none", kind |-> "string", action |-> "NONE", msg |-> "", seen |-> 0, view |-> <<>>,
     during |-> {d \in 1..Len(calls) : calls[d].pc # "done"}, matched |-> NoRule, resp |-> "", ret |-> 0]

Finish(call, resp) == [call EXCEPT !.pc = "done", !.resp = resp]

\* The HTTP status each handler answers with.
StatusCode(resp) ==
    CASE resp \in {"executed", "ok", "approved", "rejected", "updated", "deleted"} -> 200
      [] resp \in {"created", "added"} -> 201
      [] resp \in {"bad_request", "no_match", "not_pending"} -> 400
      [] resp = "unauthorized" -> 401
      [] resp \in {"forbidden", "rule_reject", "insufficient"} -> 403
      [] resp = "not_found" -> 404
      [] resp = "conflict" -> 409
      [] OTHER -> 500

CanBegin == Len(calls) < MaxCalls

Running(c, op, pc) ==
    /\ c \in 1..Len(calls)
    /\ calls[c].op = op
    /\ calls[c].pc = pc

----------------------------------------------------------------------------
(* Initial store: users hold StartCredits, the rule table holds the seeded  *)
(* rules (an AUTO_REJECT rule created before two AUTO_ACCEPT rules), and    *)
(* there are no approval requests, audit rows or calls.                     *)

SeedRules ==
    << NewRule(1, LX, "AUTO_REJECT"),
       NewRule(2, <<"^", "l">>, "AUTO_ACCEPT"),
       NewRule(3, <<"s">>, "AUTO_ACCEPT") >>

InitStore(rs, reqs) ==
    /\ credits = [u \in Users |-> StartCredits]
    /\ rules = rs
    /\ ruleSeq = Len(rs)
    /\ requests = reqs
    /\ audit = <<>>
    /\ outbox = {}
    /\ calls = <<>>

InitSeeded == InitStore(SeedRules, <<>>)

\* The store with or without a pending request for "ls" submitted by mem,
\* and with or without an admin-added rule holding the pattern that an
\* approval of "ls" creates.
Init ==
    \E rs \in {SeedRules, Append(SeedRules, NewRule(4, ExactPattern(LS), "AUTO_REJECT"))},
       reqs \in {<<>>, <<NewRequest("mem", LS)>>} :
         InitStore(rs, reqs)

----------------------------------------------------------------------------
(* POST /command *)

Matches(rule, text) == IsValidRegex(rule.pattern) /\ RegexTest(rule.pattern, text)

\* As FirstMatch, with the rules scanned from the newest to the oldest.
RECURSIVE LastMatch(_, _, _)
LastMatch(rs, text, i) ==
    IF i > Len(rs) THEN NoRule
    ELSE IF Matches(rs[Len(rs) + 1 - i], text)
         THEN rs[Len(rs) + 1 - i]
         ELSE LastMatch(rs, text, i + 1)

\* As FirstMatch, with a matching AUTO_ACCEPT rule preferred to the others.
AcceptFirstMatch(rs, text, i) ==
    LET all == {j \in i..Len(rs) : Matches(rs[j], text)}
        acc == {j \in all : rs[j].action = "AUTO_ACCEPT"}
        from == IF acc # {} THEN acc ELSE all
    IN IF all = {} THEN NoRule
       ELSE rs[CHOOSE j \in from : \A k \in from : j <= k]

\* As FirstMatch, with the scan given up at a pattern that does not compile.
RECURSIVE FirstMatchAborting(_, _, _)
FirstMatchAborting(rs, text, i) ==
    IF i > Len(rs) THEN NoRule
    ELSE IF ~IsValidRegex(rs[i].pattern) THEN NoRule
    ELSE IF RegexTest(rs[i].pattern, text) THEN rs[i]
    ELSE FirstMatchAborting(rs, text, i + 1)

RECURSIVE FirstMatch(_, _, _)
FirstMatch(rs, text, i) ==
    IF i > Len(rs) THEN NoRule
    ELSE IF Matches(rs[i], text)
         THEN rs[i]
         ELSE FirstMatch(rs, text, i + 1)

\* As HasCredits, with any positive balance accepted.
HasCreditsLoose(call) == ~(call.seen < 1)

HasCredits(call) == ~(call.seen < CommandCost)

\* As AuditRow, with creditsAfter taken from the stored balance.
AuditRowStored(call) ==
    [userId |-> call.caller, commandText |-> call.text,
     creditsDeducted |-> CommandCost,
     creditsBefore |-> call.seen,
     creditsAfter |-> credits[call.caller] - CommandCost]

AuditRow(call) ==
    [userId |-> call.caller, commandText |-> call.text,
     creditsDeducted |-> CommandCost,
     creditsBefore |-> call.seen,
     creditsAfter |-> call.seen - CommandCost]

\* authenticateApiKey: the key's user row, credits included, is read here
\* and kept in req.user for the rest of the call.
CommandAuth(u, text) ==
    /\ CanBegin
    /\ calls' = Append(calls,
         IF u = NoKey
         THEN Finish(NewCall("command", u), "unauthorized")
         ELSE [NewCall("command", u) EXCEPT
                 !.pc = "authed", !.text = text, !.seen = credits[u]])
    /\ UNCHANGED <<credits, rules, ruleSeq, requests, audit, outbox>>

\* As CommandScan, with one refusal for a command no rule matches and for a
\* command its first matching rule rejects.
CommandScanOneRefusal(c) ==
    /\ Running(c, "command", "authed")
    /\ LET call == calls[c]
           m == FirstMatch(rules, call.text, 1)
       IN calls' = [calls EXCEPT ![c] =
            IF call.text = <<>> THEN Finish(call, "bad_request")
            ELSE IF m = NoRule \/ m.action = "AUTO_REJECT"
                 THEN Finish([call EXCEPT !.matched = m], "rule_reject")
            ELSE IF ~HasCredits(call)
                 THEN Finish([call EXCEPT !.matched = m], "insufficient")
            ELSE [call EXCEPT !.matched = m, !.pc = "charging"]]
    /\ UNCHANGED <<credits, rules, ruleSeq, requests, audit, outbox>>

\* Validation, regexRule.findMany, the scan and the branches up to the
\* credit check; nothing is awaited between them but the findMany.
CommandScan(c) ==
    /\ Running(c, "command", "authed")
    /\ LET call == calls[c]
           m == FirstMatch(rules, call.text, 1)
       IN calls' = [calls EXCEPT ![c] =
            IF call.text = <<>> THEN Finish(call, "bad_request")
            ELSE IF m = NoRule THEN Finish(call, "no_match")
            ELSE IF m.action = "AUTO_REJECT"
                 THEN Finish([call EXCEPT !.matched = m], "rule_reject")
            ELSE IF ~HasCredits(call)
                 THEN Finish([call EXCEPT !.matched = m], "insufficient")
            ELSE [call EXCEPT !.matched = m, !.pc = "charging"]]
    /\ UNCHANGED <<credits, rules, ruleSeq, requests, audit, outbox>>

\* As ChargeTxn, with the audit row lost.
ChargeTxnNoAudit(c) ==
    /\ credits' = [credits EXCEPT ![calls[c].caller] = @ - CommandCost]
    /\ audit' = audit

\* As ChargeTxn, with the balance written from the balance read earlier.
ChargeTxnStale(c) ==
    /\ credits' = [credits EXCEPT ![calls[c].caller] = calls[c].seen - CommandCost]
    /\ audit' = Append(audit, AuditRow(calls[c]))

\* prisma.$transaction([user.update decrement, auditTrail.create])
ChargeTxn(c) ==
    /\ credits' = [credits EXCEPT ![calls[c].caller] = @ - CommandCost]
    /\ audit' = Append(audit, AuditRow(calls[c]))

CommandCharge(c) ==
    /\ Running(c, "command", "charging")
    /\ ChargeTxn(c)
    /\ calls' = [calls EXCEPT ![c] =
         [Finish(calls[c], "executed") EXCEPT
            !.ret = credits'[calls[c].caller], !.num = Len(audit')]]
    /\ UNCHANGED <<rules, ruleSeq, requests, outbox>>

----------------------------------------------------------------------------
(* PUT /users/:userId/credits *)

\* As AdminGate, with every holder of a key let through.
AdminGateAnyUser(u) == IF u = NoKey THEN "unauthorized" ELSE "ok"

AdminGate(u) ==
    IF u = NoKey THEN "unauthorized"
    ELSE IF Role(u) # "admin" THEN "forbidden"
    ELSE "ok"

\* As SetCredits, with the audit trail emptied when a balance is set.
SetCreditsFresh(u, target, value) ==
    /\ CanBegin
    /\ AdminGate(u) = "ok" /\ ~(value < 0) /\ target \in Users
    /\ credits' = [credits EXCEPT ![target] = value]
    /\ audit' = <<>>
    /\ calls' = Append(calls,
         Finish([NewCall("setCredits", u) EXCEPT !.who = target, !.num = value], "ok"))
    /\ UNCHANGED <<rules, ruleSeq, requests, outbox>>

SetCredits(u, target, value) ==
    /\ CanBegin
    /\ LET call == [NewCall("setCredits", u) EXCEPT !.who = target, !.num = value]
           gate == AdminGate(u)
       IN IF gate # "ok"
          THEN calls' = Append(calls, Finish(call, gate)) /\ UNCHANGED credits
          ELSE IF value < 0
          THEN calls' = Append(calls, Finish(call, "bad_request")) /\ UNCHANGED credits
          ELSE IF target \notin Users
          THEN calls' = Append(calls, Finish(call, "not_found")) /\ UNCHANGED credits
          ELSE /\ credits' = [credits EXCEPT ![target] = value]
               /\ calls' = Append(calls, Finish(call, "ok"))
    /\ UNCHANGED <<rules, ruleSeq, requests, audit, outbox>>

----------------------------------------------------------------------------
(* Specification of the credit ledger: commands and admin credit updates *)

CommandTexts == {LS, LX, <<"s">>}
CreditValues == {-5, 5}

NextCredit ==
    \/ \E u \in {"mem", "app1"}, t \in CommandTexts : CommandAuth(u, t)
    \/ \E c \in 1..MaxCalls : CommandScan(c)
    \/ \E c \in 1..MaxCalls : CommandCharge(c)
    \/ \E u \in {"adm", "app2"}, v \in CreditValues : SetCredits(u, "mem", v)

SpecCredit == InitSeeded /\ [][NextCredit]_vars

----------------------------------------------------------------------------
(* POST /approval-request *)

\* The JSON value of command_text: a string, a number or nothing.
Str(t) == [type |-> "string", value |-> t]

NotAString == {[type |-> "number", value |-> <<>>], [type |-> "undefined", value |-> <<>>]}

\* !command_text || typeof command_text !== "string"
MissingText(body) == body.type # "string" \/ body.value = <<>>

SubmitCreate(u, body) ==
    /\ CanBegin
    /\ LET call == [NewCall("submit", u) EXCEPT !.text = body.value, !.kind = body.type]
       IN IF u = NoKey
          THEN calls' = Append(calls, Finish(call, "unauthorized")) /\ UNCHANGED requests
          ELSE IF MissingText(body) \/ Trim(body.value) = <<>>
          THEN calls' = Append(calls, Finish(call, "bad_request")) /\ UNCHANGED requests
          ELSE /\ requests' = Append(requests, NewRequest(u, Trim(body.value)))
               /\ calls' = Append(calls,
                    [call EXCEPT !.pc = "notify", !.num = Len(requests')])
    /\ UNCHANGED <<credits, rules, ruleSeq, audit, outbox>>

\* user.findMany({ where: { role: "approver" } })
ApproverUsers == {u \in Users : Role(u) = "approver"}

\* One sendApprovalRequestNotification per approver.
Notifications(c) == {[to |-> a, req |-> calls[c].num] : a \in ApproverUsers}

\* As SubmitNotify, with the call failed when a notification is not delivered.
SubmitNotifyStrict(c, reached) ==
    /\ Running(c, "submit", "notify")
    /\ outbox' = outbox \cup {m \in Notifications(c) : m.to \in reached}
    /\ calls' = [calls EXCEPT ![c] =
         IF ApproverUsers \subseteq reached
         THEN [calls[c] EXCEPT !.pc = "respond"]
         ELSE Finish(calls[c], "error500")]
    /\ UNCHANGED <<credits, rules, ruleSeq, requests, audit>>

\* The awaited fan-out comes to its end, having reached some of the
\* approvers: the lookup failed (nobody is reached, the inner catch logs
\* it), or each send was delivered or failed inside sendEmail, which logs
\* the failure and returns.
SubmitNotify(c, reached) ==
    /\ Running(c, "submit", "notify")
    /\ outbox' = outbox \cup {m \in Notifications(c) : m.to \in reached}
    /\ calls' = [calls EXCEPT ![c].pc = "respond"]
    /\ UNCHANGED <<credits, rules, ruleSeq, requests, audit>>

\* The handler resumes after the last await and answers 201.
SubmitRespond(c) ==
    /\ Running(c, "submit", "respond")
    /\ calls' = [calls EXCEPT ![c] = Finish(calls[c], "created")]
    /\ UNCHANGED <<credits, rules, ruleSeq, requests, audit, outbox>>

----------------------------------------------------------------------------
(* POST /approval-requests/:requestId/approve and .../reject *)

ApproverGate(u) ==
    IF u = NoKey THEN "unauthorized"
    ELSE IF Role(u) # "approver" THEN "forbidden"
    ELSE "ok"

\* As ReviewFind, without the check of the status that was read.
ReviewFindNoCheck(op, u, r) ==
    /\ CanBegin
    /\ LET call == [NewCall(op, u) EXCEPT !.num = r]
           gate == ApproverGate(u)
       IN calls' = Append(calls,
            IF gate # "ok" THEN Finish(call, gate)
            ELSE IF r \notin 1..Len(requests) THEN Finish(call, "not_found")
            ELSE [call EXCEPT !.pc = "found", !.text = requests[r].commandText])
    /\ UNCHANGED <<credits, rules, ruleSeq, requests, audit, outbox>>

\* authenticateApprover, approvalRequest.findUnique and the two checks on
\* the row that was read.
ReviewFind(op, u, r) ==
    /\ CanBegin
    /\ LET call == [NewCall(op, u) EXCEPT !.num = r]
           gate == ApproverGate(u)
       IN calls' = Append(calls,
            IF gate # "ok" THEN Finish(call, gate)
            ELSE IF r \notin 1..Len(requests) THEN Finish(call, "not_found")
            ELSE IF requests[r].status # "pending"
                 THEN Finish([call EXCEPT !.msg = requests[r].status], "not_pending")
            ELSE [call EXCEPT !.pc = "found", !.text = requests[r].commandText])
    /\ UNCHANGED <<credits, rules, ruleSeq, requests, audit, outbox>>

ApproveFind(u, r) == ReviewFind("approve", u, r)

RejectFind(u, r) == ReviewFind("reject", u, r)

Reviewed(row, status, c) ==
    [row EXCEPT !.status = status, !.reviewedBy = calls[c].caller, !.reviewedAt = c]

\* As ApprovedRule, with the command text used as the pattern unescaped.
ApprovedRuleRaw(c) == NewRule(ruleSeq + 1, calls[c].text, "AUTO_ACCEPT")

ApprovedRule(c) == NewRule(ruleSeq + 1, ExactPattern(calls[c].text), "AUTO_ACCEPT")

\* As RuleInsertable, without the unique index.
RuleInsertableAlways(rule) == TRUE

\* RegexRule_pattern_key: regexRule.create throws "Unique constraint failed"
\* when the pattern is already there.
RuleInsertable(rule) == ~PatternTaken(rule.pattern)

\* As ApproveTxn, with the two writes issued one after the other.
ApproveTxnSplit(c) ==
    /\ requests' = [requests EXCEPT ![calls[c].num] = Reviewed(@, "approved", c)]
    /\ IF RuleInsertable(ApprovedRule(c))
       THEN rules' = Append(rules, ApprovedRule(c)) /\ ruleSeq' = ruleSeq + 1
       ELSE UNCHANGED <<rules, ruleSeq>>

\* As ApproveTxn, with the request update alone and the rule left for later.
ApproveTxnStatusOnly(c) ==
    /\ requests' = [requests EXCEPT ![calls[c].num] = Reviewed(@, "approved", c)]
    /\ UNCHANGED <<rules, ruleSeq>>

\* prisma.$transaction([approvalRequest.update, regexRule.create]): both
\* writes, or neither when the create fails.
ApproveTxn(c) ==
    IF RuleInsertable(ApprovedRule(c))
    THEN /\ requests' = [requests EXCEPT ![calls[c].num] = Reviewed(@, "approved", c)]
         /\ rules' = Append(rules, ApprovedRule(c))
         /\ ruleSeq' = ruleSeq + 1
    ELSE UNCHANGED <<requests, rules, ruleSeq>>

\* As ApproveCommit, with the request approved also when the rule cannot be
\* stored.
ApproveCommitLenient(c) ==
    /\ Running(c, "approve", "found")
    /\ requests' = [requests EXCEPT ![calls[c].num] = Reviewed(@, "approved", c)]
    /\ IF RuleInsertable(ApprovedRule(c))
       THEN rules' = Append(rules, ApprovedRule(c)) /\ ruleSeq' = ruleSeq + 1
       ELSE UNCHANGED <<rules, ruleSeq>>
    /\ calls' = [calls EXCEPT ![c] =
         [Finish(calls[c], "approved") EXCEPT !.ret = ruleSeq']]
    /\ UNCHANGED <<credits, audit, outbox>>

ApproveCommit(c) ==
    /\ Running(c, "approve", "found")
    /\ ApproveTxn(c)
    /\ calls' = [calls EXCEPT ![c] =
         IF ruleSeq' # ruleSeq
         THEN [Finish(calls[c], "approved") EXCEPT !.ret = ruleSeq']
         ELSE Finish(calls[c], "conflict")]
    /\ UNCHANGED <<credits, audit, outbox>>

\* As RejectCommit, with a rejection only noted until a second one arrives.
RejectCommitNoted(c) ==
    /\ Running(c, "reject", "found")
    /\ calls' = [calls EXCEPT ![c] = Finish(calls[c], "rejected")]
    /\ UNCHANGED <<credits, rules, ruleSeq, requests, audit, outbox>>

RejectCommit(c) ==
    /\ Running(c, "reject", "found")
    /\ requests' = [requests EXCEPT ![calls[c].num] = Reviewed(@, "rejected", c)]
    /\ calls' = [calls EXCEPT ![c] = Finish(calls[c], "rejected")]
    /\ UNCHANGED <<credits, rules, ruleSeq, audit, outbox>>

----------------------------------------------------------------------------
(* Specification of the approval workflow: submit, approve and reject       *)

SubmitTexts == {LS, <<" ", "l", ".">>, <<" ">>}
Approvers == {"app1", "app2"}
RequestIds == 1..2

ReviewNext ==
    \/ \E t \in SubmitTexts : SubmitCreate("mem", Str(t))
    \/ \E c \in 1..MaxCalls : SubmitNotify(c, ApproverUsers)
    \/ \E c \in 1..MaxCalls : SubmitRespond(c)
    \/ \E u \in Approvers, r \in RequestIds : ApproveFind(u, r)
    \/ \E c \in 1..MaxCalls : ApproveCommit(c)
    \/ \E u \in {"app2", "mem"}, r \in RequestIds : RejectFind(u, r)
    \/ \E c \in 1..MaxCalls : RejectCommit(c)

SpecApproval == Init /\ [][ReviewNext]_vars

----------------------------------------------------------------------------
(* Specification of sequential approvals: submit and approve calls, each    *)
(* begun only when every earlier call has been answered.                    *)

AllDone == \A c \in 1..Len(calls) : calls[c].pc = "done"

SeqNext ==
    \/ \E u \in {"mem", NoKey},
          b \in {Str(t) : t \in SubmitTexts \cup {<<>>, <<"l", "$">>}} \cup NotAString :
         AllDone /\ SubmitCreate(u, b)
    \/ \E c \in 1..MaxCalls : SubmitNotify(c, ApproverUsers)
    \/ \E c \in 1..MaxCalls : SubmitRespond(c)
    \/ \E u \in Approvers \cup {"adm", NoKey}, r \in RequestIds :
         AllDone /\ ApproveFind(u, r)
    \/ \E c \in 1..MaxCalls : ApproveCommit(c)

SpecApproveSeq == Init /\ [][SeqNext]_vars

----------------------------------------------------------------------------
(* POST /add-regex-rule, PUT /regex-rules/:ruleId, DELETE /regex-rules/:ruleId *)

RuleActions == {"AUTO_REJECT", "AUTO_ACCEPT"}

\* The checks of the body made before the first query.
ValidRuleBody(pattern, action) ==
    /\ pattern # <<>>
    /\ action \in RuleActions
    /\ IsValidRegex(pattern)

RuleExists(id) == \E i \in 1..Len(rules) : rules[i].id = id

\* As HeldByOther, with the row under update counted too.
HeldByAny(id, pattern) == \E i \in 1..Len(rules) : rules[i].pattern = pattern

\* RegexRule_pattern_key on an update: another row holds the pattern.
HeldByOther(id, pattern) ==
    \E i \in 1..Len(rules) : rules[i].pattern = pattern /\ rules[i].id # id

\* As AddRuleFind, without the lookup of the pattern.
AddRuleFindNoLookup(u, pattern, action) ==
    /\ CanBegin
    /\ LET call == [NewCall("addRule", u) EXCEPT !.text = pattern, !.action = action]
           gate == AdminGate(u)
       IN calls' = Append(calls,
            IF gate # "ok" THEN Finish(call, gate)
            ELSE IF ~ValidRuleBody(pattern, action) THEN Finish(call, "bad_request")
            ELSE [call EXCEPT !.pc = "creating"])
    /\ UNCHANGED <<credits, rules, ruleSeq, requests, audit, outbox>>

\* authenticateAdmin, the checks of the body and regexRule.findUnique by
\* pattern.
AddRuleFind(u, pattern, action) ==
    /\ CanBegin
    /\ LET call == [NewCall("addRule", u) EXCEPT !.text = pattern, !.action = action]
           gate == AdminGate(u)
       IN calls' = Append(calls,
            IF gate # "ok" THEN Finish(call, gate)
            ELSE IF ~ValidRuleBody(pattern, action) THEN Finish(call, "bad_request")
            ELSE IF PatternTaken(pattern) THEN Finish(call, "conflict")
            ELSE [call EXCEPT !.pc = "creating"])
    /\ UNCHANGED <<credits, rules, ruleSeq, requests, audit, outbox>>

\* regexRule.create; a unique-constraint error lands in the handler's catch,
\* which answers 500.
AddRuleCreate(c) ==
    /\ Running(c, "addRule", "creating")
    /\ LET rule == NewRule(ruleSeq + 1, calls[c].text, calls[c].action)
       IN IF RuleInsertable(rule)
          THEN /\ rules' = Append(rules, rule)
               /\ ruleSeq' = ruleSeq + 1
               /\ calls' = [calls EXCEPT ![c] =
                    [Finish(calls[c], "added") EXCEPT !.ret = rule.id]]
          ELSE /\ UNCHANGED <<rules, ruleSeq>>
               /\ calls' = [calls EXCEPT ![c] = Finish(calls[c], "error500")]
    /\ UNCHANGED <<credits, requests, audit, outbox>>

\* authenticateAdmin, the checks of the body and regexRule.findUnique by id.
UpdateRuleFind(u, id, pattern, action) ==
    /\ CanBegin
    /\ LET call == [NewCall("updateRule", u) EXCEPT
                      !.num = id, !.text = pattern, !.action = action]
           gate == AdminGate(u)
       IN calls' = Append(calls,
            IF gate # "ok" THEN Finish(call, gate)
            ELSE IF ~ValidRuleBody(pattern, action) THEN Finish(call, "bad_request")
            ELSE IF ~RuleExists(id) THEN Finish(call, "not_found")
            ELSE [call EXCEPT !.pc = "checking"])
    /\ UNCHANGED <<credits, rules, ruleSeq, requests, audit, outbox>>

\* regexRule.findUnique by pattern and the test patternExists.id !== ruleId
UpdateRuleCheck(c) ==
    /\ Running(c, "updateRule", "checking")
    /\ calls' = [calls EXCEPT ![c] =
         IF HeldByOther(calls[c].num, calls[c].text)
         THEN Finish(calls[c], "conflict")
         ELSE [calls[c] EXCEPT !.pc = "updating"]]
    /\ UNCHANGED <<credits, rules, ruleSeq, requests, audit, outbox>>

\* The row after regexRule.update: id and creation order stay.
UpdatedRule(rule, call) ==
    [rule EXCEPT !.pattern = call.text, !.action = call.action]

\* regexRule.update; it throws when the row is gone or when another row
\* holds the pattern, and the handler's catch answers 500.
UpdateRuleCommit(c) ==
    /\ Running(c, "updateRule", "updating")
    /\ IF RuleExists(calls[c].num) /\ ~HeldByOther(calls[c].num, calls[c].text)
       THEN /\ rules' = [i \in 1..Len(rules) |->
                          IF rules[i].id = calls[c].num
                          THEN UpdatedRule(rules[i], calls[c])
                          ELSE rules[i]]
            /\ calls' = [calls EXCEPT ![c] = Finish(calls[c], "updated")]
       ELSE /\ UNCHANGED rules
            /\ calls' = [calls EXCEPT ![c] = Finish(calls[c], "error500")]
    /\ UNCHANGED <<credits, ruleSeq, requests, audit, outbox>>

\* authenticateAdmin and regexRule.findUnique by id.
DeleteRuleFind(u, id) ==
    /\ CanBegin
    /\ LET call == [NewCall("deleteRule", u) EXCEPT !.num = id]
           gate == AdminGate(u)
       IN calls' = Append(calls,
            IF gate # "ok" THEN Finish(call, gate)
            ELSE IF ~RuleExists(id) THEN Finish(call, "not_found")
            ELSE [call EXCEPT !.pc = "deleting"])
    /\ UNCHANGED <<credits, rules, ruleSeq, requests, audit, outbox>>

RuleKept(id, rule) == rule.id # id

\* regexRule.delete; it throws when the row is gone.
DeleteRuleCommit(c) ==
    /\ Running(c, "deleteRule", "deleting")
    /\ IF RuleExists(calls[c].num)
       THEN /\ rules' = SelectSeq(rules, LAMBDA rule : RuleKept(calls[c].num, rule))
            /\ calls' = [calls EXCEPT ![c] = Finish(calls[c], "deleted")]
       ELSE /\ UNCHANGED rules
            /\ calls' = [calls EXCEPT ![c] = Finish(calls[c], "error500")]
    /\ UNCHANGED <<credits, ruleSeq, requests, audit, outbox>>

----------------------------------------------------------------------------------------------------------------------------------------
(* Rule administration: the second and later steps of the three handlers,   *)
(* and the bodies an admin sends                                            *)

RuleSteps ==
    \/ \E c \in 1..MaxCalls : AddRuleCreate(c)
    \/ \E c \in 1..MaxCalls : UpdateRuleCheck(c)
    \/ \E c \in 1..MaxCalls : UpdateRuleCommit(c)
    \/ \E c \in 1..MaxCalls : DeleteRuleCommit(c)

LXOnly == <<"x">>
RulePatterns == {LXOnly, ExactPattern(LS), <<"^", "l">>, <<"(">>}
RuleIds == {1, 2, 4}

RuleNext ==
    \/ \E p \in RulePatterns, a \in RuleActions : AddRuleFind("adm", p, a)
    \/ \E id \in RuleIds, p \in RulePatterns, a \in RuleActions :
         UpdateRuleFind("adm", id, p, a)
    \/ \E id \in RuleIds : DeleteRuleFind("adm", id)
    \/ RuleSteps

----------------------------------------------------------------------------
(* Specification of the rule scan: commands of one member while the admin   *)
(* adds a rule for "x", rewrites the second rule and deletes the first      *)

ScanTexts == {LS, LX, LXOnly}

ScanNext ==
    \/ \E t \in ScanTexts : CommandAuth("mem", t)
    \/ \E c \in 1..MaxCalls : CommandScan(c)
    \/ \E c \in 1..MaxCalls : CommandCharge(c)
    \/ \E p \in {LXOnly, <<"(">>} : AddRuleFind("adm", p, "AUTO_REJECT")
    \/ \E a \in RuleActions : UpdateRuleFind("adm", 2, LXOnly, a)
    \/ DeleteRuleFind("adm", 1)
    \/ RuleSteps

SpecScan == InitSeeded /\ [][ScanNext]_vars

----------------------------------------------------------------------------
(* Specification of the scan over stored rows: the RegexRule table is given *)
(* as it may have been filled outside the handlers (seed script, database   *)
(* console), some rows holding a pattern that does not compile              *)

StoredTables ==
    { SeedRules,
      << NewRule(1, <<"(", "l">>, "AUTO_REJECT"),
         NewRule(2, <<"^", "l">>, "AUTO_ACCEPT"),
         NewRule(3, LX, "AUTO_REJECT") >>,
      << NewRule(1, LXOnly, "AUTO_REJECT"),
         NewRule(2, <<"(">>, "AUTO_ACCEPT"),
         NewRule(3, <<"s">>, "AUTO_ACCEPT") >> }

InitStored == \E rs \in StoredTables : InitStore(rs, <<>>)

StoredNext ==
    \/ \E t \in ScanTexts : CommandAuth("mem", t)
    \/ \E c \in 1..MaxCalls : CommandScan(c)
    \/ \E c \in 1..MaxCalls : CommandCharge(c)

SpecStored == InitStored /\ [][StoredNext]_vars

----------------------------------------------------------------------------
(* Specification of the rule table: the admin's three handlers working on   *)
(* the pattern that the approval of the pending request creates             *)

TableNext ==
    \/ ApproveFind("app1", 1)
    \/ \E c \in 1..MaxCalls : ApproveCommit(c)
    \/ AddRuleFind("adm", ExactPattern(LS), "AUTO_ACCEPT")
    \/ \E p \in {ExactPattern(LS), <<"^", "l">>} : UpdateRuleFind("adm", 2, p, "AUTO_REJECT")
    \/ \E id \in {2, 4} : DeleteRuleFind("adm", id)
    \/ RuleSteps

SpecRules == Init /\ [][TableNext]_vars

----------------------------------------------------------------------------
(* GET /approval-requests and GET /audit-logs *)

Reverse(s) == [i \in 1..Len(s) |-> s[Len(s) + 1 - i]]

\* As VisibleTo, with every request shown to every caller.
VisibleToAll(u, row) == TRUE

\* Admins and approvers read every request, the others where: { userId }.
VisibleTo(u, row) == Role(u) \in {"admin", "approver"} \/ row.userId = u

\* authenticateApiKey and approvalRequest.findMany, newest first; the view
\* holds the ids of the rows returned.
ListRequests(u) ==
    /\ CanBegin
    /\ LET call == NewCall("listRequests", u)
           ids == [i \in 1..Len(requests) |-> i]
       IN calls' = Append(calls,
            IF u = NoKey THEN Finish(call, "unauthorized")
            ELSE [Finish(call, "ok") EXCEPT
                    !.view = Reverse(SelectSeq(ids, LAMBDA i : VisibleTo(u, requests[i])))])
    /\ UNCHANGED <<credits, rules, ruleSeq, requests, audit, outbox>>

\* authenticateAdmin and auditTrail.findMany, newest first, take: 500; the
\* view holds the positions of the rows returned.
AuditLogs(u) ==
    /\ CanBegin
    /\ LET call == NewCall("auditLogs", u)
           gate == AdminGate(u)
           newest == Reverse([i \in 1..Len(audit) |-> i])
       IN calls' = Append(calls,
            IF gate # "ok" THEN Finish(call, gate)
            ELSE [Finish(call, "ok") EXCEPT
                    !.view = SubSeq(newest, 1,
                                    IF Len(newest) < AuditPage THEN Len(newest) ELSE AuditPage)])
    /\ UNCHANGED <<credits, rules, ruleSeq, requests, audit, outbox>>

----------------------------------------------------------------------------
(* Specification of access: every handler called by the role it is meant    *)
(* for, by another role and without a key, one call after the other, on a   *)
(* store that holds a pending request of mem                                *)

InitPending == InitStore(SeedRules, <<NewRequest("mem", LS)>>)

ApproverCallers == {"app1", "adm", NoKey}
AdminCallers == {"adm", "app1", NoKey}

AccessNext ==
    \/ AllDone /\ CommandAuth("mem", LS)
    \/ \E c \in 1..MaxCalls : CommandScan(c)
    \/ \E c \in 1..MaxCalls : CommandCharge(c)
    \/ \E u \in AdminCallers : AllDone /\ SetCredits(u, "mem", 5)
    \/ AllDone /\ SubmitCreate("app1", Str(LX))
    \/ \E c \in 1..MaxCalls : SubmitNotify(c, ApproverUsers)
    \/ \E c \in 1..MaxCalls : SubmitRespond(c)
    \/ \E u \in ApproverCallers : AllDone /\ ApproveFind(u, 1)
    \/ \E c \in 1..MaxCalls : ApproveCommit(c)
    \/ \E u \in ApproverCallers \cup {"mem"} : AllDone /\ RejectFind(u, 1)
    \/ \E c \in 1..MaxCalls : RejectCommit(c)
    \/ \E u \in AdminCallers : AllDone /\ AddRuleFind(u, LXOnly, "AUTO_REJECT")
    \/ \E u \in AdminCallers : AllDone /\ UpdateRuleFind(u, 2, LXOnly, "AUTO_REJECT")
    \/ \E u \in AdminCallers : AllDone /\ DeleteRuleFind(u, 1)
    \/ RuleSteps
    \/ \E u \in Users \cup {NoKey} : AllDone /\ ListRequests(u)
    \/ \E u \in AdminCallers : AllDone /\ AuditLogs(u)

SpecAccess == InitPending /\ [][AccessNext]_vars

----------------------------------------------------------------------------
(* Specification of the notification fan-out: submits whose notifications   *)
(* are delivered or lost one by one, while an approver rejects the first    *)
(* request                                                                  *)

FanoutNext ==
    \/ \E t \in {LS, <<" ">>} : SubmitCreate("mem", Str(t))
    \/ \E c \in 1..MaxCalls, reached \in SUBSET ApproverUsers : SubmitNotify(c, reached)
    \/ \E c \in 1..MaxCalls : SubmitRespond(c)
    \/ RejectFind("app1", 1)
    \/ \E c \in 1..MaxCalls : RejectCommit(c)

SpecFanout == InitSeeded /\ [][FanoutNext]_vars

----------------------------------------------------------------------------
(* A request for a command that no seeded rule matches: its review, the     *)
(* command itself, and an admin who adds, rewrites or deletes the rule the  *)
(* approval creates                                                         *)

InitGrant == InitStore(SeedRules, <<NewRequest("mem", LXOnly)>>)

GrantNext ==
    \/ ApproveFind("app1", 1)
    \/ \E c \in 1..MaxCalls : ApproveCommit(c)
    \/ RejectFind("app2", 1)
    \/ \E c \in 1..MaxCalls : RejectCommit(c)
    \/ CommandAuth("mem", LXOnly)
    \/ \E c \in 1..MaxCalls : CommandScan(c)
    \/ \E c \in 1..MaxCalls : CommandCharge(c)
    \/ AddRuleFind("adm", ExactPattern(LXOnly), "AUTO_REJECT")
    \/ UpdateRuleFind("adm", 4, ExactPattern(LS), "AUTO_REJECT")
    \/ DeleteRuleFind("adm", 4)
    \/ RuleSteps

SpecGrant == InitGrant /\ [][GrantNext]_vars

----------------------------------------------------------------------------
(* The whole program *)

Next ==
    \/ NextCredit
    \/ ReviewNext
    \/ RuleNext
    \/ \E u \in Users \cup {NoKey} : ListRequests(u)
    \/ \E u \in Users \cup {NoKey} : AuditLogs(u)

Spec == Init /\ [][Next]_vars

----------------------------------------------------------------------------
(* Vocabulary of the properties *)

CallIds == 1..Len(calls)

Done(c, op) == calls[c].op = op /\ calls[c].pc = "done"

Concurrent(c1, c2) == c1 \in calls[c2].during \/ c2 \in calls[c1].during

\* The approve calls on request r that committed the approval.
ApproveWins(r) ==
    {c \in CallIds : Done(c, "approve") /\ calls[c].num = r /\ calls[c].resp = "approved"}

\* The approve calls on request r that found it pending and were answered.
ApproveTries(r) ==
    {c \in CallIds : Done(c, "approve") /\ calls[c].num = r
                     /\ calls[c].resp \in {"approved", "conflict"}}

RulesWith(pattern) == {i \in 1..Len(rules) : rules[i].pattern = pattern}

\* Call c commits its approve transaction in this step.
ApproveCommits(c) == Running(c, "approve", "found") /\ calls'[c].pc = "done"

CreditUpdated(u) ==
    \E c \in CallIds : Done(c, "setCredits") /\ calls[c].who = u /\ calls[c].resp = "ok"

----------------------------------------------------------------------------
(* C1: an approve call by one approver on a pending request that nobody has *)
(* approved yet leaves the request pending and creates no rule.             *)
C1_FirstApprovalKeepsPending ==
    [][\A c \in CallIds :
         (ApproveCommits(c) /\ ApproveWins(calls[c].num) = {})
           => /\ requests'[calls[c].num].status = "pending"
              /\ rules' = rules]_vars

(* C2: of two concurrent POST /command calls of a user holding 15 credits,  *)
(* both matching an AUTO_ACCEPT rule, exactly one is executed and the other *)
(* fails with InsufficientCredits.                                          *)
C2_ExactlyOneCharged ==
    \A c1, c2 \in CallIds :
        ( /\ c1 # c2
          /\ Done(c1, "command") /\ Done(c2, "command")
          /\ calls[c1].caller = calls[c2].caller
          /\ Concurrent(c1, c2)
          /\ calls[c1].seen = 15 /\ calls[c2].seen = 15
          /\ calls[c1].matched.action = "AUTO_ACCEPT"
          /\ calls[c2].matched.action = "AUTO_ACCEPT"
          /\ ~CreditUpdated(calls[c1].caller) )
        => \/ calls[c1].resp = "executed" /\ calls[c2].resp = "insufficient"
           \/ calls[c1].resp = "insufficient" /\ calls[c2].resp = "executed"

(* C3: every user's stored credit balance is an integer >= 0 in every       *)
(* reachable state.                                                         *)
C3_BalanceNeverNegative ==
    \A u \in Users : credits[u] \in Nat

(* C4: once a request is approved or rejected its status never changes.     *)
C4_TerminalStatusIsFinal ==
    [][\A r \in 1..Len(requests) :
         requests[r].status # "pending"
           => requests'[r].status = requests[r].status]_vars

----------------------------------------------------------------------------
(* C5, as claimed: two concurrent approve calls by distinct approvers on    *)
(* the same pending request create exactly one rule for it and approve it   *)
(* exactly once.                                                            *)
ConcurrentApprovals(r, c1, c2) ==
    /\ c1 \in ApproveTries(r) /\ c2 \in ApproveTries(r)
    /\ calls[c1].caller # calls[c2].caller
    /\ Concurrent(c1, c2)

C5_ExactlyOneRule ==
    \A r \in 1..Len(requests) : \A c1, c2 \in CallIds :
        ConcurrentApprovals(r, c1, c2) => Cardinality(ApproveWins(r)) = 1

(* C5, amended: approve calls on one request never both create a rule, and  *)
(* the request is approved at most once; of two concurrent approve calls by *)
(* distinct approvers exactly one creates the rule and approves the request *)
(* unless a rule with the request's pattern already exists, and then        *)
(* neither does and the request is not approved.                            *)
C5_AtMostOneRule ==
    \A r \in 1..Len(requests) :
        LET pattern == ExactPattern(requests[r].commandText)
        IN /\ Cardinality(ApproveWins(r)) <= 1
           /\ Cardinality(RulesWith(pattern)) <= 1
           /\ \A c1, c2 \in CallIds :
                ConcurrentApprovals(r, c1, c2) =>
                  \/ /\ Cardinality(ApproveWins(r)) = 1
                     /\ \E i \in RulesWith(pattern) :
                          \E c \in ApproveWins(r) : rules[i].id = calls[c].ret
                  \/ /\ ApproveWins(r) = {}
                     /\ RulesWith(pattern) # {}
                     /\ requests[r].status # "approved"

C5_Witness ==
    \E c1, c2 \in CallIds :
        /\ ConcurrentApprovals(1, c1, c2)
        /\ calls[c1].resp = "approved"
        /\ calls[c2].resp = "conflict"

----------------------------------------------------------------------------
(* C6, as claimed: when two distinct approvers approve the same pending     *)
(* request one after the other, the request ends approved and exactly one   *)
(* AUTO_ACCEPT rule for its command text has been added.                    *)
SequentialApprovals(r, c1, c2) ==
    /\ c1 < c2
    /\ c1 \in ApproveTries(r)
    /\ Done(c2, "approve") /\ calls[c2].num = r
    /\ Role(calls[c1].caller) = "approver" /\ Role(calls[c2].caller) = "approver"
    /\ calls[c1].caller # calls[c2].caller

ApprovedWithOneRule(r) ==
    LET pattern == ExactPattern(requests[r].commandText)
    IN /\ requests[r].status = "approved"
       /\ Cardinality(ApproveWins(r)) = 1
       /\ Cardinality(RulesWith(pattern)) = 1
       /\ \A i \in RulesWith(pattern) :
            /\ rules[i].action = "AUTO_ACCEPT"
            /\ \E c \in ApproveWins(r) : rules[i].id = calls[c].ret

C6_TwoApproversApprove ==
    \A r \in 1..Len(requests) : \A c1, c2 \in CallIds :
        SequentialApprovals(r, c1, c2) => ApprovedWithOneRule(r)

(* C6, amended: ... unless a rule with the request's pattern already        *)
(* exists; then no rule is added and the request stays pending.             *)
C6_TwoApproversApproveFresh ==
    \A r \in 1..Len(requests) : \A c1, c2 \in CallIds :
        SequentialApprovals(r, c1, c2) =>
          \/ ApprovedWithOneRule(r)
          \/ /\ requests[r].status = "pending"
             /\ ApproveWins(r) = {}
             /\ RulesWith(ExactPattern(requests[r].commandText)) # {}

C6_Witness ==
    \E c1, c2 \in CallIds :
        /\ SequentialApprovals(1, c1, c2)
        /\ calls[c1].resp = "approved"
        /\ calls[c2].resp = "not_pending"
        /\ ApprovedWithOneRule(1)

----------------------------------------------------------------------------
(* C7: an approve call either approves the request and adds its rule, or,   *)
(* when the rule cannot be created, leaves the request's status, reviewer   *)
(* and review time and the rule set as they were.                           *)
C7_ApproveIsAtomic ==
    [][\A c \in CallIds : ApproveCommits(c) =>
         LET r == calls[c].num
         IN \/ /\ calls'[c].resp = "approved"
               /\ requests'[r].status = "approved"
               /\ requests'[r].reviewedBy = calls[c].caller
               /\ Len(rules') = Len(rules) + 1
               /\ rules'[Len(rules')].pattern = ExactPattern(requests[r].commandText)
               /\ rules'[Len(rules')].id = calls'[c].ret
            \/ /\ calls'[c].resp = "conflict"
               /\ requests' = requests
               /\ rules' = rules]_vars

C7_Witness ==
    \E c \in CallIds :
        /\ Done(c, "approve") /\ calls[c].resp = "conflict"
        /\ requests[calls[c].num].status = "pending"
        /\ requests[calls[c].num].reviewedBy = "none"
        /\ requests[calls[c].num].reviewedAt = 0

----------------------------------------------------------------------------
(* C8: a user has as many audit rows as POST /command calls answered        *)
(* executed, and a call refused at the balance check changes neither the    *)
(* balance nor the audit trail.                                             *)
AuditRowsOf(u) == {i \in 1..Len(audit) : audit[i].userId = u}

ExecutedOf(u) ==
    {c \in CallIds : Done(c, "command") /\ calls[c].caller = u /\ calls[c].resp = "executed"}

C8_AuditIffCharged ==
    /\ [](\A u \in Users : Cardinality(AuditRowsOf(u)) = Cardinality(ExecutedOf(u)))
    /\ [][\A c \in CallIds :
            (calls[c].op = "command" /\ calls[c].pc # "done"
               /\ calls'[c].pc = "done" /\ calls'[c].resp # "executed")
              => credits' = credits /\ audit' = audit]_vars

C8_Witness ==
    \E c1, c2 \in CallIds :
        /\ c1 \in ExecutedOf("mem")
        /\ Done(c2, "command") /\ calls[c2].caller = "mem"
        /\ calls[c2].resp = "insufficient"
        /\ Cardinality(AuditRowsOf("mem")) = 1

(* C9: an audit row's balance-before and balance-after are the stored       *)
(* balance just before and just after the decrement it was committed with   *)
(* (the new_balance returned to the caller).                                *)
C9_AuditDocumentsDecrement ==
    \A c \in CallIds :
        (Done(c, "command") /\ calls[c].resp = "executed")
          => /\ audit[calls[c].num].creditsAfter = calls[c].ret
             /\ audit[calls[c].num].creditsBefore = calls[c].ret + CommandCost

(* C10: in every audit row creditsAfter = creditsBefore - creditsDeducted   *)
(* and creditsDeducted is 10, whichever rule matched.                       *)
C10_AuditRowConsistent ==
    \A i \in 1..Len(audit) :
        /\ audit[i].creditsDeducted = 10
        /\ audit[i].creditsAfter = audit[i].creditsBefore - audit[i].creditsDeducted

C10_Witness ==
    \E c1, c2 \in CallIds :
        /\ Done(c1, "command") /\ calls[c1].resp = "executed"
        /\ Done(c2, "command") /\ calls[c2].resp = "executed"
        /\ calls[c1].matched.id # calls[c2].matched.id

----------------------------------------------------------------------------
(* C11: a reject call on a request it found pending moves the request to    *)
(* rejected at once, whatever approve calls came before, and adds no rule.  *)
RejectCommits(c) == Running(c, "reject", "found") /\ calls'[c].pc = "done"

----------------------------------------------------------------------------
(* C12, as claimed: an approve or reject call on a request that is not      *)
(* pending is answered with a 409 naming the current status, and changes    *)
(* neither the request nor the rule set.                                    *)

\* This step begins a review call by an approver on a request that exists
\* and is not pending.
ReviewOfTerminal ==
    /\ Len(calls') = Len(calls) + 1
    /\ calls'[Len(calls')].op \in {"approve", "reject"}
    /\ ApproverGate(calls'[Len(calls')].caller) = "ok"
    /\ calls'[Len(calls')].num \in 1..Len(requests)
    /\ requests[calls'[Len(calls')].num].status # "pending"

RefusedUnchanged(code) ==
    LET call == calls'[Len(calls')]
    IN /\ call.pc = "done"
       /\ StatusCode(call.resp) = code
       /\ call.msg = requests[call.num].status
       /\ requests' = requests
       /\ rules' = rules

----------------------------------------------------------------------------
(* C13: after an approver's approve call on a request has been recorded, a  *)
(* second approve call by the same approver on that request is answered     *)
(* with Conflict.                                                           *)
C13_SecondVoteIsConflict ==
    \A c1, c2 \in CallIds :
        ( /\ c1 < c2
          /\ Done(c1, "approve") /\ Done(c2, "approve")
          /\ calls[c1].num = calls[c2].num
          /\ calls[c1].caller = calls[c2].caller
          /\ calls[c1].resp = "approved" )
        => StatusCode(calls[c2].resp) = 409

----------------------------------------------------------------------------
(* C14: a request created by submit is pending, owned by the submitter,     *)
(* holds the trimmed command text, has no reviewer and no review time, and  *)
(* no approve or reject call has been recorded for it.                      *)
C14_SubmitStartsPending ==
    [][Len(requests') = Len(requests) + 1 =>
         LET c == Len(calls')
             id == Len(requests')
         IN /\ calls'[c].op = "submit"
            /\ calls'[c].num = id
            /\ requests'[id].userId = calls'[c].caller
            /\ requests'[id].commandText = Trim(calls'[c].text)
            /\ requests'[id].status = "pending"
            /\ requests'[id].reviewedBy = "none"
            /\ requests'[id].reviewedAt = 0
            /\ \A d \in CallIds :
                 (calls[d].op \in {"approve", "reject"} /\ calls[d].num = id)
                   => calls[d].resp \in {"not_found", "forbidden", "unauthorized"}]_vars

C14_Witness ==
    \E c \in CallIds :
        /\ calls[c].op = "submit" /\ calls[c].pc = "notify"
        /\ calls[c].num = Len(requests)
        /\ requests[calls[c].num].status = "pending"
        /\ requests[calls[c].num].userId = calls[c].caller
        /\ \E d \in CallIds : calls[d].op = "approve" /\ calls[d].num = calls[c].num

----------------------------------------------------------------------------
(* C15: a submit whose command text is missing, not a string, empty or made *)
(* of blanks only is answered 400, creates no request and sends no          *)
(* notification.                                                            *)
AllBlank(t) == \A i \in 1..Len(t) : t[i] = " "

InvalidSubmit ==
    /\ Len(calls') = Len(calls) + 1
    /\ calls'[Len(calls')].op = "submit"
    /\ calls'[Len(calls')].caller # NoKey
    /\ calls'[Len(calls')].kind # "string" \/ AllBlank(calls'[Len(calls')].text)

C15_InvalidSubmitRefused ==
    /\ [][InvalidSubmit =>
            /\ calls'[Len(calls')].pc = "done"
            /\ StatusCode(calls'[Len(calls')].resp) = 400
            /\ requests' = requests
            /\ outbox' = outbox]_vars
    /\ [](\A m \in outbox : \E c \in CallIds :
            /\ calls[c].op = "submit" /\ calls[c].pc \in {"respond", "done"}
            /\ calls[c].resp \in {"", "created"}
            /\ calls[c].kind = "string"
            /\ calls[c].num = m.req
            /\ ~AllBlank(calls[c].text))

C15_Witness ==
    \E c1, c2 \in CallIds :
        /\ Done(c1, "submit") /\ calls[c1].resp = "bad_request"
        /\ calls[c1].kind = "number"
        /\ Done(c2, "submit") /\ calls[c2].resp = "bad_request"
        /\ calls[c2].kind = "string" /\ calls[c2].text = <<" ">>
        /\ requests = <<>> /\ outbox = {}

----------------------------------------------------------------------------
(* C16: the rule POST /command applies is the matching rule created first,  *)
(* or none when no rule matches, whatever the actions of the rules and      *)
(* whatever updates other rules went through; it is determined by the rule  *)
(* set and the command text alone.                                          *)

\* Call c makes its scan in this step.
Scans(c) == Running(c, "command", "authed") /\ calls'[c].pc # "authed"

\* The matching rule with the least creation stamp.
EarliestMatch(rs, text) ==
    LET M == {i \in 1..Len(rs) : IsValidRegex(rs[i].pattern) /\ RegexTest(rs[i].pattern, text)}
    IN IF M = {} THEN NoRule
       ELSE rs[CHOOSE i \in M : \A j \in M : rs[i].id <= rs[j].id]

C16_FirstMatchWins ==
    [][\A c \in CallIds : (Scans(c) /\ calls[c].text # <<>>) =>
         LET m == EarliestMatch(rules, calls[c].text)
         IN /\ calls'[c].matched = m
            /\ m = NoRule => calls'[c].resp = "no_match"
            /\ (m # NoRule /\ m.action = "AUTO_REJECT") => calls'[c].resp = "rule_reject"
            /\ (m # NoRule /\ m.action = "AUTO_ACCEPT") =>
                 calls'[c].resp \in {"", "insufficient"}]_vars

C16_Witness ==
    \E c, d \in CallIds :
        /\ d < c
        /\ Done(d, "updateRule") /\ calls[d].resp = "updated"
        /\ Done(c, "command") /\ calls[c].matched # NoRule
        /\ calls[d].num # calls[c].matched.id
        /\ \E i \in 1..Len(rules) :
             /\ rules[i].id > calls[c].matched.id
             /\ rules[i].action # calls[c].matched.action
             /\ RegexTest(rules[i].pattern, calls[c].text)

----------------------------------------------------------------------------
(* C17: a command no rule matches is refused with a response (400) that     *)
(* differs from the response (403) to a command whose first matching rule   *)
(* is AUTO_REJECT; both end the call with balance and audit trail as they   *)
(* were.                                                                    *)
C17_RefusalsDiffer ==
    [][\A c \in CallIds : (Scans(c) /\ calls[c].text # <<>>) =>
         LET m == EarliestMatch(rules, calls[c].text)
         IN /\ m = NoRule =>
                 calls'[c].resp = "no_match" /\ StatusCode(calls'[c].resp) = 400
            /\ m.action = "AUTO_REJECT" =>
                 calls'[c].resp = "rule_reject" /\ StatusCode(calls'[c].resp) = 403
            /\ calls'[c].resp \in {"no_match", "rule_reject"} =>
                 /\ calls'[c].pc = "done"
                 /\ credits' = credits
                 /\ audit' = audit]_vars

C17_Witness ==
    \E c1, c2 \in CallIds :
        /\ Done(c1, "command") /\ calls[c1].resp = "no_match"
        /\ Done(c2, "command") /\ calls[c2].resp = "rule_reject"
        /\ credits["mem"] = StartCredits
        /\ audit = <<>>

----------------------------------------------------------------------------
(* C18: when the oldest rule matching a command is AUTO_REJECT the command  *)
(* is refused, balance and audit trail stay as they were, whatever the      *)
(* caller's balance and whatever AUTO_ACCEPT rules created later match too. *)
RejectedFirst(text) ==
    \E i \in 1..Len(rules) :
        /\ Matches(rules[i], text)
        /\ rules[i].action = "AUTO_REJECT"
        /\ \A j \in 1..(i - 1) : ~Matches(rules[j], text)

C18_RejectRuleWins ==
    [][\A c \in CallIds : (Scans(c) /\ RejectedFirst(calls[c].text)) =>
         /\ calls'[c].pc = "done"
         /\ calls'[c].resp = "rule_reject"
         /\ calls'[c].matched.action = "AUTO_REJECT"
         /\ credits' = credits
         /\ audit' = audit]_vars

C18_Witness ==
    \E c \in CallIds :
        /\ Done(c, "command") /\ calls[c].resp = "rule_reject"
        /\ calls[c].seen < CommandCost
        /\ \E i \in 1..Len(rules) :
             /\ rules[i].id > calls[c].matched.id
             /\ rules[i].action = "AUTO_ACCEPT"
             /\ RegexTest(rules[i].pattern, calls[c].text)

----------------------------------------------------------------------------
(* C19: a command whose first matching rule is AUTO_ACCEPT, sent by a user  *)
(* whose balance was below 10 when the call read it, is answered            *)
(* "Insufficient credits" (403); balance and audit trail stay as they were. *)
C19_InsufficientCredits ==
    [][\A c \in CallIds :
         ( /\ Scans(c)
           /\ calls[c].seen < CommandCost
           /\ EarliestMatch(rules, calls[c].text).action = "AUTO_ACCEPT" )
         => /\ calls'[c].pc = "done"
            /\ calls'[c].resp = "insufficient"
            /\ StatusCode(calls'[c].resp) = 403
            /\ credits' = credits
            /\ audit' = audit]_vars

C19_Witness ==
    \E c \in CallIds :
        /\ Done(c, "command") /\ calls[c].resp = "insufficient"
        /\ calls[c].seen = 5
        /\ calls[c].matched.action = "AUTO_ACCEPT"
        /\ credits[calls[c].caller] = 5
        /\ audit = <<>>

----------------------------------------------------------------------------
(* C20: no two rules ever hold the same pattern, whatever add, update,      *)
(* delete and approve calls ran; and an add-rule call that finds its        *)
(* pattern in the table is answered 409 and leaves the table as it was.     *)
UniquePatterns ==
    \A i, j \in 1..Len(rules) : rules[i].pattern = rules[j].pattern => i = j

\* This step begins an admin's add-rule call for a pattern already stored.
DuplicateAdd ==
    /\ Len(calls') = Len(calls) + 1
    /\ calls'[Len(calls')].op = "addRule"
    /\ AdminGate(calls'[Len(calls')].caller) = "ok"
    /\ ValidRuleBody(calls'[Len(calls')].text, calls'[Len(calls')].action)
    /\ \E i \in 1..Len(rules) : rules[i].pattern = calls'[Len(calls')].text

C20_PatternsUnique ==
    /\ []UniquePatterns
    /\ [][DuplicateAdd =>
            /\ calls'[Len(calls')].pc = "done"
            /\ calls'[Len(calls')].resp = "conflict"
            /\ StatusCode(calls'[Len(calls')].resp) = 409
            /\ rules' = rules
            /\ ruleSeq' = ruleSeq]_vars

C20_Witness ==
    \E c1, c2 \in CallIds :
        /\ c1 < c2 /\ ~Concurrent(c1, c2)
        /\ Done(c1, "addRule") /\ calls[c1].resp = "added"
        /\ Done(c2, "addRule") /\ calls[c2].resp = "conflict"
        /\ calls[c1].text = calls[c2].text
        /\ Cardinality(RulesWith(calls[c2].text)) = 1
        /\ \E d \in CallIds : Done(d, "deleteRule") /\ calls[d].resp = "deleted"

----------------------------------------------------------------------------
(* C21: a writer whose rule cannot be stored because another writer stored  *)
(* the same pattern first (an add-rule call past its lookup, or an approve  *)
(* transaction) is answered 409, and the table keeps the pattern once.      *)

\* Call c reaches its create in this step and the pattern is already stored.
LosingWrite(c) ==
    \/ /\ Running(c, "addRule", "creating")
       /\ calls'[c].pc = "done"
       /\ RulesWith(calls[c].text) # {}
    \/ /\ ApproveCommits(c)
       /\ RulesWith(ExactPattern(calls[c].text)) # {}

C21_LosingWriterGetsConflict ==
    [][\A c \in CallIds : LosingWrite(c) =>
         /\ StatusCode(calls'[c].resp) = 409
         /\ rules' = rules]_vars

----------------------------------------------------------------------------
(* C22: the rule an approval creates is AUTO_ACCEPT and matches a command   *)
(* text exactly when that text equals the request's stored command text.    *)
ProbeChars == {"l", ".", "$"}
ProbeTexts == UNION {[1..n -> ProbeChars] : n \in 0..ProbeLen}

C22_ApprovedRuleIsExact ==
    [][\A c \in CallIds : (ApproveCommits(c) /\ Len(rules') = Len(rules) + 1) =>
         LET rule == rules'[Len(rules')]
             text == requests[calls[c].num].commandText
         IN /\ rule.action = "AUTO_ACCEPT"
            /\ \A t \in ProbeTexts \cup {text} :
                 (IsValidRegex(rule.pattern) /\ RegexTest(rule.pattern, t)) <=> t = text]_vars

C22_Witness ==
    \E c \in CallIds :
        /\ Done(c, "approve") /\ calls[c].resp = "approved"
        /\ requests[calls[c].num].commandText \in {<<"l", ".">>, <<"l", "$">>}
        /\ \E i \in 1..Len(rules) :
             /\ rules[i].id = calls[c].ret
             /\ ~RegexTest(rules[i].pattern, LS)
             /\ ~RegexTest(rules[i].pattern, <<"l">>)

----------------------------------------------------------------------------
(* C23: whatever part of the fan-out fails, the submit goes on to its 201   *)
(* response, and the request it created stays stored: pending, or in the    *)
(* status a review call gave it.                                            *)

\* Call c is a submit past the creation of its request.
Submitted(c) == calls[c].op = "submit" /\ calls[c].num # 0

C23_FanoutNeverFailsSubmit ==
    /\ [][\A c \in CallIds :
            /\ (Running(c, "submit", "notify") /\ calls'[c] # calls[c]) =>
                 /\ calls'[c].pc = "respond"
                 /\ requests' = requests
            /\ (Running(c, "submit", "respond") /\ calls'[c] # calls[c]) =>
                 /\ calls'[c].pc = "done"
                 /\ StatusCode(calls'[c].resp) = 201
                 /\ requests' = requests]_vars
    /\ [](\A c \in CallIds : Submitted(c) =>
            /\ calls[c].num \in 1..Len(requests)
            /\ requests[calls[c].num].userId = calls[c].caller
            /\ \/ requests[calls[c].num].status = "pending"
               \/ requests[calls[c].num].reviewedAt # 0)

C23_Witness ==
    \E c1, c2 \in CallIds :
        /\ Done(c1, "submit") /\ calls[c1].resp = "created"
        /\ Done(c2, "submit") /\ calls[c2].resp = "created"
        /\ \A m \in outbox : m.req # calls[c1].num
        /\ \E m \in Notifications(c2) : m \in outbox
        /\ \E m \in Notifications(c2) : m \notin outbox
        /\ requests[calls[c1].num].status = "pending"
        /\ requests[calls[c2].num].status = "pending"

----------------------------------------------------------------------------
(* C24: the response of a submit does not wait for the fan-out: while the   *)
(* notifications of a submit are still under way, the step that answers     *)
(* the caller can be taken.                                                 *)
C24_ResponseDoesNotWait ==
    \A c \in CallIds : Running(c, "submit", "notify") => ENABLED SubmitRespond(c)

----------------------------------------------------------------------------
(* C25: approve and reject act only for a caller whose role is approver;    *)
(* the rule handlers, the credit update and the audit view only for an      *)
(* admin; a call without a known key is answered 401 and a call by another  *)
(* role 403, and neither changes rules, requests, balances or audit trail.  *)
ApproverOps == {"approve", "reject"}
AdminOps == {"addRule", "updateRule", "deleteRule", "setCredits", "auditLogs"}

HasRole(u, role) == u # NoKey /\ Role(u) = role

\* The call that takes this step.
Actor == CHOOSE c \in 1..Len(calls') : c > Len(calls) \/ calls'[c] # calls[c]

Refusable(call) ==
    \/ call.caller = NoKey
    \/ call.op \in ApproverOps /\ ~HasRole(call.caller, "approver")
    \/ call.op \in AdminOps /\ ~HasRole(call.caller, "admin")

----------------------------------------------------------------------------
(* C26: an admin may do whatever an approver may do: an approve or reject   *)
(* call by an admin is not refused for its role.                            *)
C26_AdminMayReview ==
    \A c \in CallIds :
        ( /\ calls[c].op \in ApproverOps
          /\ calls[c].pc = "done"
          /\ HasRole(calls[c].caller, "admin") )
        => StatusCode(calls[c].resp) \notin {401, 403}

----------------------------------------------------------------------------
(* C27: GET /approval-requests answers an admin or an approver with every   *)
(* request, and any other caller with exactly the requests that caller      *)
(* owns.                                                                    *)
ViewOf(call) == {call.view[i] : i \in 1..Len(call.view)}

C27_ListShowsOwnOrAll ==
    [][LET call == calls'[Actor]
       IN (call.op = "listRequests" /\ call.caller # NoKey) =>
            /\ call.pc = "done" /\ StatusCode(call.resp) = 200
            /\ Cardinality(ViewOf(call)) = Len(call.view)
            /\ ViewOf(call) =
                 IF Role(call.caller) \in {"admin", "approver"}
                 THEN 1..Len(requests)
                 ELSE {r \in 1..Len(requests) : requests[r].userId = call.caller}
            /\ requests' = requests]_vars

C27_Witness ==
    \E c1, c2 \in CallIds :
        /\ Done(c1, "listRequests") /\ calls[c1].caller = "mem"
        /\ calls[c1].view = <<1>>
        /\ Done(c2, "listRequests") /\ calls[c2].caller \in {"adm", "app1"}
        /\ calls[c2].view = <<2, 1>>
        /\ requests[2].userId = "app1"

----------------------------------------------------------------------------
(* C28: no step of any handler changes or removes an audit entry: the       *)
(* trail only grows at its end.                                             *)
C28_AuditAppendOnly ==
    [][/\ Len(audit') >= Len(audit)
       /\ \A i \in 1..Len(audit) : audit'[i] = audit[i]]_vars

C28_Witness ==
    \E c1, c2, c3 \in CallIds :
        /\ c1 < c2 /\ c2 < c3
        /\ Done(c1, "command") /\ calls[c1].resp = "executed"
        /\ Done(c2, "setCredits") /\ calls[c2].resp = "ok"
        /\ calls[c3].pc = "done" /\ calls[c3].op \in {"approve", "deleteRule", "reject"}
        /\ calls[c3].resp \in {"approved", "deleted", "rejected"}
        /\ Len(audit) = 1
        /\ audit[1] = AuditRow(calls[c1])

----------------------------------------------------------------------------
(* C29: a stored rule whose pattern does not compile is passed over by the  *)
(* scan: POST /command answers as it would with that rule taken out of the  *)
(* table, and never with an internal error.                                 *)
WithoutInvalid(rs) == SelectSeq(rs, LAMBDA rule : IsValidRegex(rule.pattern))

\* The answer of the scan of call over the rules rs, "" when it goes on to
\* the charge.
ScanAnswer(rs, call) ==
    LET m == EarliestMatch(rs, call.text)
    IN IF m = NoRule THEN "no_match"
       ELSE IF m.action = "AUTO_REJECT" THEN "rule_reject"
       ELSE IF call.seen < CommandCost THEN "insufficient"
       ELSE ""

C29_InvalidRuleSkipped ==
    [][\A c \in CallIds : (Scans(c) /\ calls[c].text # <<>>) =>
         /\ calls'[c].matched = EarliestMatch(WithoutInvalid(rules), calls[c].text)
         /\ calls'[c].resp = ScanAnswer(WithoutInvalid(rules), calls[c])
         /\ StatusCode(calls'[c].resp) # 500 \/ calls'[c].pc = "charging"]_vars

C29_Witness ==
    \E c \in CallIds :
        /\ Done(c, "command") /\ calls[c].resp = "executed"
        /\ \E i \in 1..Len(rules) :
             /\ ~IsValidRegex(rules[i].pattern)
             /\ rules[i].id < calls[c].matched.id

----------------------------------------------------------------------------
(* C30: as long as no admin credit update was applied to a user, the stored *)
(* balance of the user is the initial balance less the creditsDeducted of   *)
(* all audit entries of the user, concurrent commands included.             *)
RECURSIVE DeductedIn(_, _)
DeductedIn(rows, u) ==
    IF rows = <<>> THEN 0
    ELSE (IF Head(rows).userId = u THEN Head(rows).creditsDeducted ELSE 0)
         + DeductedIn(Tail(rows), u)

C30_CreditConservation ==
    \A u \in Users :
        (\A c \in CallIds :
            ~(Done(c, "setCredits") /\ calls[c].resp = "ok" /\ calls[c].who = u))
        => credits[u] = StartCredits - DeductedIn(audit, u)

C30_Witness ==
    \E c1, c2 \in CallIds :
        /\ c1 # c2 /\ Concurrent(c1, c2)
        /\ Done(c1, "command") /\ calls[c1].resp = "executed"
        /\ Done(c2, "command") /\ calls[c2].resp = "executed"
        /\ calls[c1].caller = calls[c2].caller
        /\ DeductedIn(audit, calls[c1].caller) = 2 * CommandCost
        /\ \A c \in CallIds : calls[c].op # "setCredits"

----------------------------------------------------------------------------
(* C31: a request on which an approve call committed a rule is never in     *)
(* status rejected, however approve and reject calls on it interleave.      *)
C31_RuleOnlyWithApproved ==
    \A r \in 1..Len(requests) :
        (\E c \in ApproveWins(r) : \E i \in 1..Len(rules) : rules[i].id = calls[c].ret)
        => requests[r].status # "rejected"

----------------------------------------------------------------------------
(* C32: an approve call that reaches its transaction while a rule with the  *)
(* pattern of the request's text is stored is answered 409 and changes      *)
(* nothing: a pending request stays pending with no reviewer; and two       *)
(* requests with the same text are never both approved while that rule is   *)
(* stored.                                                                  *)
C32_ExistingPatternBlocksApprove ==
    /\ [][\A c \in CallIds :
            (ApproveCommits(c) /\ RulesWith(ExactPattern(calls[c].text)) # {}) =>
               /\ StatusCode(calls'[c].resp) = 409
               /\ requests' = requests
               /\ rules' = rules
               /\ requests[calls[c].num].status = "pending" =>
                    /\ requests'[calls[c].num].status = "pending"
                    /\ requests'[calls[c].num].reviewedBy = "none"]_vars
    /\ [](\A r1, r2 \in 1..Len(requests) :
            ( /\ r1 # r2
              /\ requests[r1].commandText = requests[r2].commandText
              /\ RulesWith(ExactPattern(requests[r1].commandText)) # {} )
            => ~(requests[r1].status = "approved" /\ requests[r2].status = "approved"))

C32_Witness ==
    \E c1, c2 \in CallIds :
        /\ c1 < c2
        /\ Done(c1, "approve") /\ calls[c1].resp = "approved"
        /\ Done(c2, "approve") /\ calls[c2].resp = "conflict"
        /\ calls[c1].num # calls[c2].num
        /\ calls[c1].text = calls[c2].text
        /\ requests[calls[c1].num].status = "approved"
        /\ requests[calls[c2].num] = NewRequest("mem", calls[c2].text)

----------------------------------------------------------------------------
(* C33: an update leaves every rule at its place in the creation order,     *)
(* changing at most the pattern and action of the rule addressed; an update *)
(* to a pattern stored under another id is answered 409 with every rule     *)
(* unchanged, and an update that names the rule's own pattern succeeds.     *)
OwnPattern(c) ==
    \E i \in 1..Len(rules) :
        rules[i].id = calls[c].num /\ rules[i].pattern = calls[c].text

OthersPattern(c) ==
    \E i \in 1..Len(rules) :
        rules[i].id # calls[c].num /\ rules[i].pattern = calls[c].text

UpdateStep(c, pc) ==
    Running(c, "updateRule", pc) /\ calls'[c].pc # calls[c].pc

C33_UpdateKeepsOrder ==
    [][\A c \in CallIds :
         /\ UpdateStep(c, "checking") =>
              /\ rules' = rules
              /\ OthersPattern(c) => StatusCode(calls'[c].resp) = 409
              /\ OwnPattern(c) => calls'[c].pc = "updating"
         /\ UpdateStep(c, "updating") =>
              /\ Len(rules') = Len(rules)
              /\ \A i \in 1..Len(rules) :
                    /\ rules'[i].id = rules[i].id
                    /\ rules[i].id # calls[c].num => rules'[i] = rules[i]
                    /\ rules[i].id = calls[c].num /\ calls'[c].resp = "updated" =>
                         /\ rules'[i].pattern = calls[c].text
                         /\ rules'[i].action = calls[c].action
              /\ calls'[c].resp # "updated" => rules' = rules
              /\ OwnPattern(c) => calls'[c].resp = "updated"]_vars

C33_Witness ==
    \E c1, c2 \in CallIds :
        /\ Done(c1, "updateRule") /\ calls[c1].resp = "updated"
        /\ calls[c1].text = <<"^", "l">>
        /\ Done(c2, "updateRule") /\ calls[c2].resp = "conflict"
        /\ Len(rules) = 4
        /\ rules[2] = [SeedRules[2] EXCEPT !.action = "AUTO_REJECT"]
        /\ rules[4].pattern = calls[c2].text

C33_WitnessMoved ==
    \E c \in CallIds :
        /\ Done(c, "updateRule") /\ calls[c].resp = "updated"
        /\ calls[c].text = ExactPattern(LS)
        /\ rules[2].id = 2 /\ rules[2].pattern = ExactPattern(LS)
        /\ rules[1] = SeedRules[1] /\ rules[3] = SeedRules[3]

----------------------------------------------------------------------------
(* C34: once a request is approved, and while every rule update and delete  *)
(* that took effect either had ended before the approving call began or     *)
(* addressed another rule than the one the approval created, the rule scan  *)
(* of a command with the request's stored text finds a matching rule and    *)
(* never answers "no rule matched".                                         *)

\* The calls that rewrote or removed a rule.
RuleWrites ==
    {d \in CallIds :
        \/ Done(d, "updateRule") /\ calls[d].resp = "updated"
        \/ Done(d, "deleteRule") /\ calls[d].resp = "deleted"}

\* The calls that approved request r.
ApprovedBy(r) ==
    ApproveWins(r) \cup
    (IF requests[r].status = "approved" THEN {requests[r].reviewedAt} ELSE {})

EndedBefore(d, w) == d < w /\ d \notin calls[w].during

\* Request r holds the text, is approved, and no rule write is later.
ApprovedUntouched(text) ==
    \E r \in 1..Len(requests) :
        /\ requests[r].commandText = text
        /\ \E w \in ApprovedBy(r) : \A d \in RuleWrites :
              EndedBefore(d, w) \/ calls[d].num # calls[w].ret

C34_ApprovedTextAlwaysMatches ==
    [][\A c \in CallIds :
         (Scans(c) /\ ApprovedUntouched(calls[c].text)) =>
            /\ calls'[c].resp # "no_match"
            /\ calls'[c].matched # NoRule
            /\ RegexTest(calls'[c].matched.pattern, calls[c].text)]_vars

C34_Witness ==
    \E c0, w, c \in CallIds :
        /\ c0 < w /\ w < c
        /\ Done(c0, "command") /\ calls[c0].resp = "no_match"
        /\ Done(w, "approve") /\ calls[w].resp = "approved"
        /\ requests[calls[w].num].commandText = calls[c].text
        /\ calls[c0].text = calls[c].text
        /\ Done(c, "command") /\ calls[c].resp = "executed"
        /\ calls[c].matched.id = calls[w].ret

\* The same command is refused again once the rule is deleted.
C34_WitnessDeleted ==
    \E w, d, c \in CallIds :
        /\ w < d /\ d < c
        /\ Done(w, "approve") /\ calls[w].resp = "approved"
        /\ Done(d, "deleteRule") /\ calls[d].resp = "deleted"
        /\ Done(c, "command") /\ calls[c].resp = "no_match"
        /\ requests[calls[w].num].status = "approved"
        /\ requests[calls[w].num].commandText = calls[c].text

\* The same command is refused again once the rule is rewritten.
C34_WitnessUpdated ==
    \E w, d, c \in CallIds :
        /\ w < d /\ d < c
        /\ Done(w, "approve") /\ calls[w].resp = "approved"
        /\ Done(d, "updateRule") /\ calls[d].resp = "updated"
        /\ Done(c, "command") /\ calls[c].resp = "no_match"
        /\ requests[calls[w].num].status = "approved"
        /\ requests[calls[w].num].commandText = calls[c].text

====
